---------------------------- MODULE Spec2Model ----------------------------
(***************************************************************************)
(* Exchange classification and cache-population engine of the             *)
(* blockchain-analyzer dashboard (src/unnamed/part_002): the CEX/DEX       *)
(* classifier, the paginated collector, the catalog cache and the          *)
(* identifier-map builder, with the key-value store and the remote         *)
(* market-data API as their environment.                                   *)
(*                                                                         *)
(* A JavaScript string is modelled as the sequence of its characters, so   *)
(* that toLowerCase() and includes() are computed, not assumed.            *)
(***************************************************************************)
EXTENDS Integers, Sequences, FiniteSets, TLC

(***************************************************************************)
(* Strings                                                                 *)
(***************************************************************************)
UpperCase ==
    <<"A", "B", "C", "D", "E", "F", "G", "H", "I", "J", "K", "L", "M",
      "N", "O", "P", "Q", "R", "S", "T", "U", "V", "W", "X", "Y", "Z">>

LowerCase ==
    <<"a", "b", "c", "d", "e", "f", "g", "h", "i", "j", "k", "l", "m",
      "n", "o", "p", "q", "r", "s", "t", "u", "v", "w", "x", "y", "z">>

\* One character of String.prototype.toLowerCase(): an upper-case letter
\* becomes its lower-case letter, every other character is kept.
LowerChar(c) ==
    IF \E i \in DOMAIN UpperCase : UpperCase[i] = c
    THEN LowerCase[CHOOSE i \in DOMAIN UpperCase : UpperCase[i] = c]
    ELSE c

\* s.toLowerCase()
toLowerCase(s) == [i \in 1..Len(s) |-> LowerChar(s[i])]

\* s.includes(t): t occurs in s as a contiguous substring (the empty string
\* occurs in every string).
includes(s, t) ==
    \E i \in 0..(Len(s) - Len(t)) : SubSeq(s, i + 1, i + Len(t)) = t

(***************************************************************************)
(* The lookup tables (part_002 lines 5-79)                                 *)
(***************************************************************************)
DEX_KEYWORDS ==
    << <<"d", "e", "x">>,
       <<"s", "w", "a", "p">>,
       <<"u", "n", "i", "s", "w", "a", "p">>,
       <<"p", "a", "n", "c", "a", "k", "e", "s", "w", "a", "p">>,
       <<"s", "u", "s", "h", "i", "s", "w", "a", "p">>,
       <<"c", "u", "r", "v", "e">>,
       <<"b", "a", "l", "a", "n", "c", "e", "r">>,
       <<"1", "i", "n", "c", "h">>,
       <<"d", "o", "d", "o">>,
       <<"k", "y", "b", "e", "r", "s", "w", "a", "p">>,
       <<"r", "a", "y", "d", "i", "u", "m">>,
       <<"o", "r", "c", "a">>,
       <<"s", "e", "r", "u", "m">>,
       <<"j", "u", "p", "i", "t", "e", "r">>,
       <<"c", "o", "w", "s", "w", "a", "p">>,
       <<"m", "a", "t", "c", "h", "a">>,
       <<"p", "a", "r", "a", "s", "w", "a", "p">>,
       <<"a", "i", "r", "s", "w", "a", "p">>,
       <<"b", "a", "n", "c", "o", "r">>,
       <<"i", "d", "e", "x">>,
       <<"o", "a", "s", "i", "s">>,
       <<"a", "u", "g", "u", "r">>,
       <<"g", "n", "o", "s", "i", "s">>,
       <<"r", "a", "d", "a", "r">>,
       <<"e", "t", "h", "e", "r", "d", "e", "l", "t", "a">>,
       <<"f", "o", "r", "k", "d", "e", "l", "t", "a">>,
       <<"t", "r", "a", "d", "e", "r", "j", "o", "e">>,
       <<"t", "r", "a", "d", "e", "r", " ", "j", "o", "e">>,
       <<"p", "a", "n", "g", "o", "l", "i", "n">>,
       <<"s", "p", "o", "o", "k", "y", "s", "w", "a", "p">>,
       <<"s", "p", "i", "r", "i", "t", "s", "w", "a", "p">>,
       <<"q", "u", "i", "c", "k", "s", "w", "a", "p">>,
       <<"s", "o", "l", "a", "r", "b", "e", "a", "m">>,
       <<"b", "e", "a", "m", "s", "w", "a", "p">>,
       <<"s", "t", "e", "l", "l", "a", "s", "w", "a", "p">>,
       <<"h", "o", "n", "e", "y", "s", "w", "a", "p">>,
       <<"l", "e", "v", "i", "n", "s", "w", "a", "p">>,
       <<"u", "b", "e", "s", "w", "a", "p">>,
       <<"m", "o", "b", "i", "u", "s">>,
       <<"e", "l", "k">>,
       <<"s", "h", "i", "b", "a", "s", "w", "a", "p">>,
       <<"a", "p", "e", "s", "w", "a", "p">>,
       <<"b", "i", "s", "w", "a", "p">>,
       <<"b", "a", "b", "y", "s", "w", "a", "p">>,
       <<"m", "d", "e", "x">>,
       <<"m", "o", "o", "n", "i", "s", "w", "a", "p">>,
       <<"s", "w", "o", "p", "f", "i">>,
       <<"d", "e", "f", "i", "s", "w", "a", "p">>,
       <<"f", "l", "u", "i", "d">>,
       <<"d", "e", "x", "a", "l", "o", "t">>,
       <<"v", "e", "n", "u", "s">>,
       <<"c", "o", "m", "p", "o", "u", "n", "d">>,
       <<"a", "a", "v", "e">>,
       <<"s", "y", "n", "t", "h", "e", "t", "i", "x">>,
       <<"0", "x">>,
       <<"p", "r", "o", "t", "o", "c", "o", "l">>,
       <<"v", "2">>,
       <<"v", "3">>,
       <<"v", "4">>,
       <<"a", "b", "s", "t", "r", "a", "c", "t">> >>

knownCEX ==
    << <<"b", "i", "n", "a", "n", "c", "e">>,
       <<"c", "o", "i", "n", "b", "a", "s", "e">>,
       <<"k", "r", "a", "k", "e", "n">>,
       <<"b", "i", "t", "f", "i", "n", "e", "x">>,
       <<"b", "i", "t", "s", "t", "a", "m", "p">>,
       <<"g", "e", "m", "i", "n", "i">>,
       <<"o", "k", "x">>,
       <<"o", "k", "e", "x">>,
       <<"h", "u", "o", "b", "i">>,
       <<"k", "u", "c", "o", "i", "n">>,
       <<"b", "y", "b", "i", "t">>,
       <<"g", "a", "t", "e">>,
       <<"m", "e", "x", "c">>,
       <<"b", "i", "t", "g", "e", "t">>,
       <<"c", "r", "y", "p", "t", "o", ".", "c", "o", "m">>,
       <<"c", "r", "y", "p", "t", "o", "c", "o", "m">>,
       <<"f", "t", "x">>,
       <<"f", "t", "x", ".", "u", "s">>,
       <<"c", "o", "i", "n", "b", "a", "s", "e", " ", "p", "r", "o">>,
       <<"c", "o", "i", "n", "b", "a", "s", "e", "p", "r", "o">>,
       <<"b", "i", "t", "m", "e", "x">>,
       <<"d", "e", "r", "i", "b", "i", "t">>,
       <<"b", "i", "t", "f", "l", "y", "e", "r">>,
       <<"u", "p", "b", "i", "t">>,
       <<"b", "i", "t", "h", "u", "m", "b">>,
       <<"p", "o", "l", "o", "n", "i", "e", "x">>,
       <<"b", "i", "t", "t", "r", "e", "x">>,
       <<"b", "i", "t", "m", "a", "r", "t">>,
       <<"l", "b", "a", "n", "k">>,
       <<"h", "o", "t", "b", "i", "t">>,
       <<"b", "i", "b", "o", "x">>,
       <<"p", "r", "o", "b", "i", "t">>,
       <<"b", "i", "t", "r", "u", "e">>,
       <<"c", "o", "i", "n", "e", "x">>,
       <<"w", "h", "i", "t", "e", "b", "i", "t">>,
       <<"b", "i", "t", "f", "o", "r", "e", "x">>,
       <<"z", "b", ".", "c", "o", "m">>,
       <<"z", "b">>,
       <<"d", "i", "g", "i", "f", "i", "n", "e", "x">> >>

(***************************************************************************)
(* Classifier (part_002 lines 100-130)                                     *)
(***************************************************************************)
\* The optional apiCentralized argument: a boolean, or not supplied.
Flags == {"true", "false", "absent"}

FlagOf(b) == IF b THEN "true" ELSE "false"

\* knownCEX.some(...), lines 105-111
IsKnownCEX(normalizedId, normalizedName) ==
    \E k \in DOMAIN knownCEX :
        LET normalizedCex == toLowerCase(knownCEX[k])
        IN  \/ normalizedId = normalizedCex
            \/ normalizedName = normalizedCex
            \/ includes(normalizedId, normalizedCex)
            \/ includes(normalizedName, normalizedCex)

\* DEX_KEYWORDS.some(...), lines 118-122
ContainsDEXKeyword(normalizedId, normalizedName) ==
    \E k \in DOMAIN DEX_KEYWORDS :
        LET normalizedKeyword == toLowerCase(DEX_KEYWORDS[k])
        IN  \/ includes(normalizedId, normalizedKeyword)
            \/ includes(normalizedName, normalizedKeyword)

\* Faulty variant of Fallback: an absent flag defaults to decentralized.
FallbackDefaultsFalse(apiCentralized) ==
    IF apiCentralized = "absent" THEN FALSE ELSE apiCentralized = "true"

\* apiCentralized ?? true, line 129
Fallback(apiCentralized) ==
    IF apiCentralized = "absent" THEN TRUE ELSE apiCentralized = "true"

\* Faulty variant of classifyExchange: the keyword check runs before the allow-list.
classifyKeywordFirst(id, name, apiCentralized) ==
    LET normalizedId   == toLowerCase(id)
        normalizedName == toLowerCase(name)
    IN  IF ContainsDEXKeyword(normalizedId, normalizedName) THEN FALSE
        ELSE IF IsKnownCEX(normalizedId, normalizedName) THEN TRUE
        ELSE Fallback(apiCentralized)

\* Faulty variant of classifyExchange: a supplied flag is trusted before the keywords.
classifyFlagFirst(id, name, apiCentralized) ==
    LET normalizedId   == toLowerCase(id)
        normalizedName == toLowerCase(name)
    IN  IF IsKnownCEX(normalizedId, normalizedName) THEN TRUE
        ELSE IF apiCentralized # "absent" THEN apiCentralized = "true"
        ELSE ~ContainsDEXKeyword(normalizedId, normalizedName)

\* lines 100-130.  TRUE: centralized (CEX), FALSE: decentralized (DEX)
classifyExchange(id, name, apiCentralized) ==
    LET normalizedId   == toLowerCase(id)
        normalizedName == toLowerCase(name)
    IN  IF IsKnownCEX(normalizedId, normalizedName) THEN TRUE
        ELSE IF ContainsDEXKeyword(normalizedId, normalizedName) THEN FALSE
        ELSE Fallback(apiCentralized)

(***************************************************************************)
(* Strings of the running system.  Identifiers and display names that      *)
(* travel through the cache and the remote API are written as TLA+ strings *)
(* and Chars gives the characters of each, "" being the empty (falsy)      *)
(* string that also stands for a missing field.                            *)
(***************************************************************************)
Chars(s) ==
    CASE s = ""               -> << >>
      [] s = "x"              -> <<"x">>
      [] s = "binance"        -> <<"b", "i", "n", "a", "n", "c", "e">>
      [] s = "pancakeswap"    -> <<"p", "a", "n", "c", "a", "k", "e", "s", "w", "a", "p">>
      [] s = "unknown-id-123" -> <<"u", "n", "k", "n", "o", "w", "n", "-", "i", "d", "-",
                                   "1", "2", "3">>
      [] s = "Foo Swap"       -> <<"F", "o", "o", " ", "S", "w", "a", "p">>
      [] s = "Abc"            -> <<"A", "b", "c">>
      [] s = "X"              -> <<"X">>

SysStrings ==
    {"", "x", "binance", "pancakeswap", "unknown-id-123", "Foo Swap", "Abc", "X"}

\* The classifier's three tests on the strings of the running system,
\* tabulated once.
KnownCEXTable ==
    [id \in SysStrings, name \in SysStrings |->
        IsKnownCEX(toLowerCase(Chars(id)), toLowerCase(Chars(name)))]

DEXKeywordTable ==
    [id \in SysStrings, name \in SysStrings |->
        ContainsDEXKeyword(toLowerCase(Chars(id)), toLowerCase(Chars(name)))]

ClassifyTable ==
    [id \in SysStrings, name \in SysStrings, apiCentralized \in Flags |->
        classifyExchange(Chars(id), Chars(name), apiCentralized)]

\* classifyExchange on the strings of the running system
classify(id, name, apiCentralized) == ClassifyTable[id, name, apiCentralized]

(***************************************************************************)
(* a.localeCompare(b) (line 283), as the root collation orders the         *)
(* characters used here: space, punctuation, digits, then letters without  *)
(* regard to case; strings equal up to case put lower case first.          *)
(***************************************************************************)
Collation ==
    <<" ", "-", ".", "0", "1", "2", "3", "4", "5", "6", "7", "8", "9">> \o LowerCase

CharRank(c) ==
    LET l == LowerChar(c)
    IN  IF \E i \in DOMAIN Collation : Collation[i] = l
        THEN CHOOSE i \in DOMAIN Collation : Collation[i] = l
        ELSE Len(Collation) + 1

RECURSIVE PrimaryCompare(_, _)
PrimaryCompare(a, b) ==
    IF a = << >> /\ b = << >> THEN 0
    ELSE IF a = << >> THEN -1
    ELSE IF b = << >> THEN 1
    ELSE IF CharRank(Head(a)) < CharRank(Head(b)) THEN -1
    ELSE IF CharRank(Head(a)) > CharRank(Head(b)) THEN 1
    ELSE PrimaryCompare(Tail(a), Tail(b))

RECURSIVE CaseCompare(_, _)
CaseCompare(a, b) ==
    IF a = << >> \/ b = << >> THEN 0
    ELSE IF Head(a) = Head(b) THEN CaseCompare(Tail(a), Tail(b))
    ELSE IF Head(a) = LowerChar(Head(a)) THEN -1
    ELSE 1

localeCompare(a, b) ==
    LET p == PrimaryCompare(Chars(a), Chars(b))
    IN  IF p # 0 THEN p ELSE CaseCompare(Chars(a), Chars(b))

(***************************************************************************)
(* Venues                                                                  *)
(***************************************************************************)
\* interface Exchange (lines 81-91): the optional descriptive fields are
\* carried through unread and are left out.
Exchange(id, name, centralized) ==
    [id |-> id, name |-> name, centralized |-> centralized]

\* One record of a page of the remote /exchanges endpoint: id "" is a
\* record without identifier, name "" one without name, centralized is the
\* remote flag or "absent".
Raw(id, name, centralized) ==
    [id |-> id, name |-> name, centralized |-> centralized]

\* The records the remote endpoint serves in this model.
RawPool ==
    { Raw("x", "Foo Swap", "true"),
      Raw("x", "Abc", "false"),
      Raw("binance", "", "false"),
      Raw("", "Abc", "true") }

\* perPage (line 167) is 250 in the source; the model scales the page size
\* down and keeps the comparisons made with it.
PerPage == 2

\* The remote endpoint holds at most one record more than a full page, so
\* the page after a full page is short, empty or fails.
MaxRaw == PerPage + 1

RECURSIVE SeqsUpTo(_, _)
SeqsUpTo(S, n) ==
    IF n = 0 THEN { << >> }
    ELSE LET p == SeqsUpTo(S, n - 1)
         IN  p \cup { Append(s, e) : s \in { q \in p : Len(q) = n - 1 }, e \in S }

\* What one page request can come back with: an error, an array of at most
\* perPage records, or a single object instead of an array.
Responses ==
    { [kind |-> "error", items |-> << >>] }
    \cup { [kind |-> "array", items |-> s] : s \in SeqsUpTo(RawPool, PerPage) }
    \cup { [kind |-> "object", items |-> <<e>>] : e \in RawPool }

\* lines 181-199: the records of one page that carry an identifier, named
\* (name || id) and classified
RECURSIVE NormalizePage(_)
NormalizePage(pageExchanges) ==
    IF pageExchanges = << >> THEN << >>
    ELSE LET exchange == Head(pageExchanges)
             exchangeName == IF exchange.name # "" THEN exchange.name ELSE exchange.id
             rest == NormalizePage(Tail(pageExchanges))
         IN  IF exchange.id # ""
             THEN <<Exchange(exchange.id, exchangeName,
                             classify(exchange.id, exchangeName, exchange.centralized))>>
                  \o rest
             ELSE rest

\* Faulty variant of Deduplicate: every record overwrites the one kept for its id.
RECURSIVE DeduplicateLastWins(_)
DeduplicateLastWins(exchanges) ==
    IF exchanges = << >> THEN << >>
    ELSE LET init == DeduplicateLastWins(SubSeq(exchanges, 1, Len(exchanges) - 1))
             last == exchanges[Len(exchanges)]
         IN  IF \E i \in DOMAIN init : init[i].id = last.id
             THEN [i \in DOMAIN init |-> IF init[i].id = last.id THEN last ELSE init[i]]
             ELSE Append(init, last)

\* lines 217-226, 250-255 and 274-280: a Map keyed by id that keeps the
\* first record of every id, read back in insertion order
RECURSIVE Deduplicate(_)
Deduplicate(exchanges) ==
    IF exchanges = << >> THEN << >>
    ELSE LET init == Deduplicate(SubSeq(exchanges, 1, Len(exchanges) - 1))
             last == exchanges[Len(exchanges)]
         IN  IF \E i \in DOMAIN init : init[i].id = last.id
             THEN init
             ELSE Append(init, last)

\* Faulty variant of SortByName: the list is left in the order of arrival.
SortByNameUnsorted(exchanges) == exchanges

\* line 283: Array.prototype.sort with the name comparator (a stable sort)
RECURSIVE InsertSorted(_, _)
InsertSorted(sorted, e) ==
    IF sorted = << >> THEN <<e>>
    ELSE LET last == sorted[Len(sorted)]
         IN  IF localeCompare(last.name, e.name) <= 0
             THEN Append(sorted, e)
             ELSE Append(InsertSorted(SubSeq(sorted, 1, Len(sorted) - 1), e), last)

RECURSIVE SortByName(_)
SortByName(exchanges) ==
    IF exchanges = << >> THEN << >>
    ELSE InsertSorted(SortByName(SubSeq(exchanges, 1, Len(exchanges) - 1)),
                      exchanges[Len(exchanges)])

\* Faulty variant of Reclassify: the classifier is re-run without the cached flag.
ReclassifyWithoutFlag(exchanges) ==
    [i \in 1..Len(exchanges) |->
        Exchange(exchanges[i].id, exchanges[i].name,
                 classify(exchanges[i].id, exchanges[i].name, "absent"))]

\* Faulty variant of Reclassify: the cached entries are returned as they are.
ReclassifyStale(exchanges) == exchanges

\* lines 258-261: the cache-hit path re-runs the classifier on every entry,
\* handing it the cached flag as apiCentralized
Reclassify(exchanges) ==
    [i \in 1..Len(exchanges) |->
        Exchange(exchanges[i].id, exchanges[i].name,
                 classify(exchanges[i].id, exchanges[i].name,
                          FlagOf(exchanges[i].centralized)))]

(***************************************************************************)
(* The key-value store.  A key holds "absent" or a payload; the catalog    *)
(* payload is the JSON array of the venues, the type-map payload the JSON  *)
(* array of the map's [id, boolean] entries.                               *)
(***************************************************************************)
Absent == "absent"

\* JSON.stringify(deduplicatedExchanges), line 287
StringifyCatalog(exchanges) ==
    [i \in 1..Len(exchanges) |->
        <<exchanges[i].id, exchanges[i].name, FlagOf(exchanges[i].centralized)>>]

\* JSON.parse(cached), line 247
ParseCatalog(payload) ==
    [i \in 1..Len(payload) |->
        Exchange(payload[i][1], payload[i][2], payload[i][3] = "true")]

\* A Map<string, boolean> is a function from its keys; Array.from(entries)
\* is read up to the order of the entries.
EmptyMap == [k \in {} |-> TRUE]

MapSet(m, k, v) == [j \in DOMAIN m \cup {k} |-> IF j = k THEN v ELSE m[j]]

\* JSON.stringify(Array.from(exchangeMap.entries())), lines 388-389
StringifyMap(m) == { <<k, FlagOf(m[k])>> : k \in DOMAIN m }

\* new Map(JSON.parse(cachedMap)), lines 314-315
ParseMap(payload) ==
    [k \in { e[1] : e \in payload } |->
        (CHOOSE e \in payload : e[1] = k)[2] = "true"]

(***************************************************************************)
(* Identifier-map builder, the synchronous part (lines 334-382)            *)
(***************************************************************************)
\* lines 335-342, exchangeNamesMap: the display name of every catalog venue
\* that has both an id and a name
RECURSIVE ExchangeNamesMap(_)
ExchangeNamesMap(allExchanges) ==
    IF allExchanges = << >> THEN EmptyMap
    ELSE LET init == ExchangeNamesMap(SubSeq(allExchanges, 1, Len(allExchanges) - 1))
             exchange == allExchanges[Len(allExchanges)]
         IN  IF exchange.id # "" /\ exchange.name # ""
             THEN MapSet(init, exchange.id, exchange.name)
             ELSE init

\* Faulty variant of MergeCatalog: the catalog is merged into a new, empty map.
RECURSIVE MergeCatalogFresh(_, _)
MergeCatalogFresh(exchangeMap, allExchanges) ==
    IF allExchanges = << >> THEN EmptyMap
    ELSE LET init == MergeCatalogFresh(exchangeMap,
                                       SubSeq(allExchanges, 1, Len(allExchanges) - 1))
             exchange == allExchanges[Len(allExchanges)]
         IN  IF exchange.id # "" /\ exchange.name # ""
             THEN MapSet(init, exchange.id, exchange.centralized)
             ELSE init

\* Faulty variant of MergeCatalog: an entry the map already has is kept.
RECURSIVE MergeCatalogKeepsCached(_, _)
MergeCatalogKeepsCached(exchangeMap, allExchanges) ==
    IF allExchanges = << >> THEN exchangeMap
    ELSE LET init == MergeCatalogKeepsCached(exchangeMap,
                                  SubSeq(allExchanges, 1, Len(allExchanges) - 1))
             exchange == allExchanges[Len(allExchanges)]
         IN  IF exchange.id # "" /\ exchange.name # "" /\ exchange.id \notin DOMAIN init
             THEN MapSet(init, exchange.id, exchange.centralized)
             ELSE init

\* lines 336-342, exchangeMap.set(exchange.id, exchange.centralized)
RECURSIVE MergeCatalog(_, _)
MergeCatalog(exchangeMap, allExchanges) ==
    IF allExchanges = << >> THEN exchangeMap
    ELSE LET init == MergeCatalog(exchangeMap,
                                  SubSeq(allExchanges, 1, Len(allExchanges) - 1))
             exchange == allExchanges[Len(allExchanges)]
         IN  IF exchange.id # "" /\ exchange.name # ""
             THEN MapSet(init, exchange.id, exchange.centralized)
             ELSE init

\* The display name the loop body looks up for exchangeId (line 347).
NameFor(exchangeNamesMap, exchangeId) ==
    IF exchangeId \in DOMAIN exchangeNamesMap /\ exchangeNamesMap[exchangeId] # ""
    THEN exchangeNamesMap[exchangeId]
    ELSE exchangeId

\* Faulty variant of ReclassifyIdentifier: the keyword test is left out.
ReclassifyIdentifierNoKeywords(exchangeMap, exchangeNamesMap, exchangeId) ==
    IF KnownCEXTable[exchangeId, NameFor(exchangeNamesMap, exchangeId)]
    THEN MapSet(exchangeMap, exchangeId, TRUE)
    ELSE IF exchangeId \notin DOMAIN exchangeMap
    THEN MapSet(exchangeMap, exchangeId, TRUE)
    ELSE exchangeMap

\* Faulty variant of ReclassifyIdentifier: an unclassified identifier defaults to
\* decentralized.
ReclassifyIdentifierDefaultFalse(exchangeMap, exchangeNamesMap, exchangeId) ==
    LET exchangeName == NameFor(exchangeNamesMap, exchangeId)
    IN  IF KnownCEXTable[exchangeId, exchangeName]
        THEN MapSet(exchangeMap, exchangeId, TRUE)
        ELSE IF DEXKeywordTable[exchangeId, exchangeName]
        THEN MapSet(exchangeMap, exchangeId, FALSE)
        ELSE IF exchangeId \notin DOMAIN exchangeMap
        THEN MapSet(exchangeMap, exchangeId, FALSE)
        ELSE exchangeMap

\* Faulty variant of ReclassifyIdentifier: an identifier that matches
\* neither list is set to centralized even when it has an entry.
ReclassifyIdentifierDefaultOverrides(exchangeMap, exchangeNamesMap, exchangeId) ==
    LET exchangeName == NameFor(exchangeNamesMap, exchangeId)
    IN  IF KnownCEXTable[exchangeId, exchangeName]
        THEN MapSet(exchangeMap, exchangeId, TRUE)
        ELSE IF DEXKeywordTable[exchangeId, exchangeName]
        THEN MapSet(exchangeMap, exchangeId, FALSE)
        ELSE MapSet(exchangeMap, exchangeId, TRUE)

\* Faulty variant of ReclassifyIdentifier: an identifier that matches
\* neither list and has no entry gets none.
ReclassifyIdentifierDefaultSkips(exchangeMap, exchangeNamesMap, exchangeId) ==
    LET exchangeName == NameFor(exchangeNamesMap, exchangeId)
    IN  IF KnownCEXTable[exchangeId, exchangeName]
        THEN MapSet(exchangeMap, exchangeId, TRUE)
        ELSE IF DEXKeywordTable[exchangeId, exchangeName]
        THEN MapSet(exchangeMap, exchangeId, FALSE)
        ELSE exchangeMap

\* Faulty variant of ReclassifyIdentifier: a keyword match sets the entry to
\* centralized.
ReclassifyIdentifierKeywordTrue(exchangeMap, exchangeNamesMap, exchangeId) ==
    LET exchangeName == NameFor(exchangeNamesMap, exchangeId)
    IN  IF KnownCEXTable[exchangeId, exchangeName]
        THEN MapSet(exchangeMap, exchangeId, TRUE)
        ELSE IF DEXKeywordTable[exchangeId, exchangeName]
        THEN MapSet(exchangeMap, exchangeId, TRUE)
        ELSE IF exchangeId \notin DOMAIN exchangeMap
        THEN MapSet(exchangeMap, exchangeId, TRUE)
        ELSE exchangeMap

\* lines 347-381, the body of the loop over the requested identifiers
ReclassifyIdentifier(exchangeMap, exchangeNamesMap, exchangeId) ==
    LET exchangeName == NameFor(exchangeNamesMap, exchangeId)          \* line 347
    IN  IF KnownCEXTable[exchangeId, exchangeName]             \* lines 348-363
        THEN MapSet(exchangeMap, exchangeId, TRUE)
        ELSE IF DEXKeywordTable[exchangeId, exchangeName]      \* lines 366-375
        THEN MapSet(exchangeMap, exchangeId, FALSE)
        ELSE IF exchangeId \notin DOMAIN exchangeMap
        THEN MapSet(exchangeMap, exchangeId, TRUE)
        ELSE exchangeMap

\* lines 346-382, exchangeIdentifiers.forEach(...)
RECURSIVE ReclassifyIdentifiers(_, _, _)
ReclassifyIdentifiers(exchangeMap, exchangeNamesMap, exchangeIdentifiers) ==
    IF exchangeIdentifiers = << >> THEN exchangeMap
    ELSE ReclassifyIdentifier(
             ReclassifyIdentifiers(exchangeMap, exchangeNamesMap,
                 SubSeq(exchangeIdentifiers, 1, Len(exchangeIdentifiers) - 1)),
             exchangeNamesMap,
             exchangeIdentifiers[Len(exchangeIdentifiers)])

\* lines 334-382: the map after the catalog and the requested identifiers
\* have been merged into it
BuildMap(exchangeMap, allExchanges, exchangeIdentifiers) ==
    ReclassifyIdentifiers(MergeCatalog(exchangeMap, allExchanges),
                          ExchangeNamesMap(allExchanges),
                          exchangeIdentifiers)

\* Faulty variant of MissingExchanges: a loaded map is taken to be complete.
MissingExchangesNone(exchangeMap, exchangeIdentifiers) == {}

\* line 319: the requested identifiers the loaded map has no entry for
MissingExchanges(exchangeMap, exchangeIdentifiers) ==
    { exchangeIdentifiers[i] : i \in DOMAIN exchangeIdentifiers } \ DOMAIN exchangeMap

(***************************************************************************)
(* The running system                                                      *)
(***************************************************************************)
\* Requests in flight.  Every request runs on its own stack and talks to
\* the others through the key-value store only.
Req == {"r1", "r2"}

\* The identifiers a consumer asks about.
IdPool == {"x", "binance", "pancakeswap"}

\* Longest list of requested identifiers drawn from IdPool.
MaxIds == 2

\* The cold-cache scenario of the specification, section 8.
ColdExample == <<"binance", "pancakeswap", "unknown-id-123">>

\* The caller (listing-analysis/route.ts lines 462-468) passes the distinct
\* non-empty identifiers of a token's tickers.
Requests ==
    { ids \in SeqsUpTo(IdPool, MaxIds) :
        \A i, j \in DOMAIN ids : ids[i] = ids[j] => i = j }
    \cup {ColdExample}

VARIABLES
    catalogCache,   \* the value under 'exchanges:all'
    typeMapCache,   \* the value under 'exchanges:type-map'
    pc,             \* pc[r]: the await request r is suspended at
    loc,            \* loc[r]: the local variables of request r
    lastCatalog,    \* history: what the previous catalog call returned
    cid, cname, cflag, cret,  \* a lone call of classifyExchange
    tickers,        \* tickersData.tickers of the listing-analysis handler
    tokenMap,       \* the exchangeMap the handler got for them
    counted         \* its dexTickers and cexTickers

vars == <<catalogCache, typeMapCache, pc, loc, lastCatalog, cid, cname, cflag, cret,
          tickers, tokenMap, counted>>

sysVars == <<catalogCache, typeMapCache, pc, loc, lastCatalog>>
clsVars == <<cid, cname, cflag, cret, tickers, tokenMap, counted>>

NoValue(empty) == [has |-> FALSE, val |-> empty]
Value(v) == [has |-> TRUE, val |-> v]

NoCatalog == [has |-> FALSE, how |-> "none", list |-> << >>]

\* A request holds up to two redis clients: "map", the one getExchangeTypeMap
\* opens at line 305, and "cat", the one getAllExchangesWithCache opens at
\* line 238.  quits counts the calls of redis.quit() on the client.
Clients == {"map", "cat"}
NoClients == [c \in Clients |-> [opened |-> FALSE, quits |-> 0]]

\* getRedisClient() resolved
Opened(l, c) == [l EXCEPT !.clients[c].opened = TRUE]
\* redis.quit() was called; the count stops at two
Quitted(l, c) ==
    [l EXCEPT !.clients[c].quits = IF @ < 2 THEN @ + 1 ELSE @]

\* The locals of a request that is not running.
IdleLoc ==
    [ op          |-> "none",     \* "map": getExchangeTypeMap, "cat": getAllExchangesWithCache
      ids         |-> << >>,      \* exchangeIdentifiers
      exchangeMap |-> EmptyMap,   \* line 310
      page        |-> 0,          \* line 166
      exchanges   |-> << >>,      \* line 165
      fetched     |-> << >>,      \* line 271, what fetchAllExchanges returned
      asked       |-> << >>,      \* history: the page requests made and their answers
      cachedData  |-> << >>,      \* line 247
      catalog     |-> << >>,      \* what getAllExchangesWithCache returns
      path        |-> "none",     \* history: "hit" or "fresh" catalog
      stored      |-> FALSE,      \* history: the catalog setEx succeeded
      loaded      |-> NoValue(EmptyMap),  \* history: the map the cache read gave
      readFailed  |-> FALSE,      \* history: the type-map get threw
      preKeys     |-> {},         \* history: keys persisted when the call began
      events      |-> {},         \* history: store and remote operations performed
      clients     |-> NoClients ] \* history: the redis clients of lines 305 and 238

Set(r, l) == loc' = [loc EXCEPT ![r] = l]
Goto(r, label) == pc' = [pc EXCEPT ![r] = label]

\* An exception leaves the call: its stack is gone, the history is kept.
RaiseFrom(r, l) ==
    /\ Goto(r, "raised")
    /\ Set(r, [IdleLoc EXCEPT !.op = l.op, !.ids = l.ids,
                              !.loaded = l.loaded,
                              !.readFailed = l.readFailed,
                              !.preKeys = l.preKeys,
                              !.events = l.events,
                              !.clients = l.clients])

Raise(r) == RaiseFrom(r, loc[r])

InitSystem ==
    /\ catalogCache = NoValue(<< >>)
    /\ typeMapCache = NoValue({})
    /\ pc = [r \in Req |-> "idle"]
    /\ loc = [r \in Req |-> IdleLoc]
    /\ lastCatalog = NoCatalog

\* ---- getExchangeTypeMap (lines 302-398) ----

\* A consumer calls getExchangeTypeMap(ids); the call suspends at line 305.
CallTypeMap(r) ==
    /\ pc[r] = "idle"
    /\ \E ids \in Requests :
          Set(r, [IdleLoc EXCEPT !.op = "map", !.ids = ids,
                      !.preKeys = { e[1] : e \in typeMapCache.val }])
    /\ Goto(r, "m_connect")
    /\ lastCatalog' = NoCatalog
    /\ UNCHANGED <<catalogCache, typeMapCache>>
    /\ UNCHANGED clsVars

\* line 305: getRedisClient() resolves, or throws out of the call
TypeMapConnect(r) ==
    /\ pc[r] = "m_connect"
    /\ \/ Goto(r, "m_get") /\ Set(r, Opened(loc[r], "map"))
       \/ Raise(r)
    /\ UNCHANGED <<catalogCache, typeMapCache, lastCatalog>>
    /\ UNCHANGED clsVars

\* Faulty variant of TypeMapGet: a get that throws ends the call.
TypeMapGetRethrows(r) ==
    /\ pc[r] = "m_get"
    /\ \/ /\ Set(r, [loc[r] EXCEPT !.readFailed = TRUE])
          /\ Goto(r, "raised")
       \/ /\ ~typeMapCache.has
          /\ UNCHANGED loc
          /\ Goto(r, "c_connect")
       \/ /\ typeMapCache.has
          /\ LET exchangeMap == ParseMap(typeMapCache.val)
             IN  /\ Set(r, [loc[r] EXCEPT !.exchangeMap = exchangeMap,
                                          !.loaded = Value(exchangeMap)])
                 /\ Goto(r, IF MissingExchanges(exchangeMap, loc[r].ids) = {}
                            THEN "m_quitFast" ELSE "c_connect")
    /\ UNCHANGED <<catalogCache, typeMapCache, lastCatalog>>
    /\ UNCHANGED clsVars

\* lines 311-329: redis.get(exchangeMapCacheKey) and what follows it up to
\* the next await
TypeMapGet(r) ==
    /\ pc[r] = "m_get"
    /\ \/ \* the get throws: caught at line 327
          /\ Set(r, [loc[r] EXCEPT !.readFailed = TRUE])
          /\ Goto(r, "c_connect")
       \/ \* no value under the key
          /\ ~typeMapCache.has
          /\ UNCHANGED loc
          /\ Goto(r, "c_connect")
       \/ \* a value: lines 314-325
          /\ typeMapCache.has
          /\ LET exchangeMap == ParseMap(typeMapCache.val)
             IN  /\ Set(r, [loc[r] EXCEPT !.exchangeMap = exchangeMap,
                                          !.loaded = Value(exchangeMap)])
                 /\ Goto(r, IF MissingExchanges(exchangeMap, loc[r].ids) = {}
                            THEN "m_quitFast" ELSE "c_connect")
    /\ UNCHANGED <<catalogCache, typeMapCache, lastCatalog>>
    /\ UNCHANGED clsVars

\* line 321: redis.quit() on the fast path; it sits inside the try of line
\* 311, so a quit that throws is caught at line 327 and the call goes on
TypeMapQuitFast(r) ==
    /\ pc[r] = "m_quitFast"
    /\ \/ Goto(r, "done")
       \/ Goto(r, "c_connect")
    /\ Set(r, Quitted(loc[r], "map"))
    /\ UNCHANGED <<catalogCache, typeMapCache, lastCatalog>>
    /\ UNCHANGED clsVars

\* Faulty variant of TypeMapSet: a setEx that throws ends the call.
TypeMapSetFatal(r) ==
    /\ pc[r] = "m_set"
    /\ \/ /\ typeMapCache' = Value(StringifyMap(loc[r].exchangeMap))
          /\ Set(r, [loc[r] EXCEPT !.events = @ \cup {"mapWrite", "mapStored"}])
          /\ Goto(r, "m_quit")
       \/ /\ UNCHANGED typeMapCache
          /\ Set(r, [loc[r] EXCEPT !.events = @ \cup {"mapWrite"}])
          /\ Goto(r, "raised")
    /\ UNCHANGED <<catalogCache, lastCatalog>>
    /\ UNCHANGED clsVars

\* Faulty variant of TypeMapSet: only the entries of the requested identifiers
\* are written.
TypeMapSetRequestedOnly(r) ==
    /\ pc[r] = "m_set"
    /\ \/ /\ typeMapCache' =
                Value({ e \in StringifyMap(loc[r].exchangeMap) :
                          \E i \in DOMAIN loc[r].ids : loc[r].ids[i] = e[1] })
          /\ Set(r, [loc[r] EXCEPT !.events = @ \cup {"mapWrite", "mapStored"}])
       \/ /\ UNCHANGED typeMapCache
          /\ Set(r, [loc[r] EXCEPT !.events = @ \cup {"mapWrite"}])
    /\ Goto(r, "m_quit")
    /\ UNCHANGED <<catalogCache, lastCatalog>>
    /\ UNCHANGED clsVars

\* lines 386-390: redis.setEx(exchangeMapCacheKey, ...), a failure is caught
TypeMapSet(r) ==
    /\ pc[r] = "m_set"
    /\ \/ /\ typeMapCache' = Value(StringifyMap(loc[r].exchangeMap))
          /\ Set(r, [loc[r] EXCEPT !.events = @ \cup {"mapWrite", "mapStored"}])
       \/ /\ UNCHANGED typeMapCache
          /\ Set(r, [loc[r] EXCEPT !.events = @ \cup {"mapWrite"}])
    /\ Goto(r, "m_quit")
    /\ UNCHANGED <<catalogCache, lastCatalog>>
    /\ UNCHANGED clsVars

\* lines 393-397: redis.quit() in the finally, then return exchangeMap; a
\* quit that throws leaves the call by the exception
TypeMapQuit(r) ==
    /\ pc[r] = "m_quit"
    /\ \/ Goto(r, "done") /\ Set(r, Quitted(loc[r], "map"))
       \/ RaiseFrom(r, Quitted(loc[r], "map"))
    /\ UNCHANGED <<catalogCache, typeMapCache, lastCatalog>>
    /\ UNCHANGED clsVars

\* ---- getAllExchangesWithCache (lines 237-296) ----

\* A consumer calls getAllExchangesWithCache(); the call suspends at line 238.
CallCatalog(r) ==
    /\ pc[r] = "idle"
    /\ Set(r, [IdleLoc EXCEPT !.op = "cat"])
    /\ Goto(r, "c_connect")
    /\ UNCHANGED <<catalogCache, typeMapCache, lastCatalog>>
    /\ UNCHANGED clsVars

\* getAllExchangesWithCache hands allExchanges to its caller: the consumer,
\* or line 332 of getExchangeTypeMap, which then runs lines 334-384.
ReturnCatalog(r, l, allExchanges) ==
    IF l.op = "cat"
    THEN /\ Set(r, [l EXCEPT !.catalog = allExchanges])
         /\ Goto(r, "done")
    ELSE /\ Set(r, [l EXCEPT !.catalog = allExchanges,
                             !.exchangeMap = BuildMap(l.exchangeMap, allExchanges, l.ids)])
         /\ Goto(r, "m_set")

\* line 238: getRedisClient() resolves, or throws out of the call (and out
\* of getExchangeTypeMap when it is the caller)
CatalogConnect(r) ==
    /\ pc[r] = "c_connect"
    /\ \/ Goto(r, "c_get") /\ Set(r, Opened(loc[r], "cat"))
       \/ Raise(r)
    /\ UNCHANGED <<catalogCache, typeMapCache, lastCatalog>>
    /\ UNCHANGED clsVars

\* lines 242-268: redis.get(cacheKey) and what follows it up to the next await
CatalogGet(r) ==
    /\ pc[r] = "c_get"
    /\ \/ \* the get throws: caught at line 266
          /\ Set(r, [loc[r] EXCEPT !.events = @ \cup {"catalogRead", "catalogGetThrew"},
                                   !.page = 1])
          /\ Goto(r, "f_page")
       \/ \* no value under the key
          /\ ~catalogCache.has
          /\ Set(r, [loc[r] EXCEPT !.events = @ \cup {"catalogRead"}, !.page = 1])
          /\ Goto(r, "f_page")
       \/ \* cache hit: lines 246-261
          /\ catalogCache.has
          /\ LET cachedData == ParseCatalog(catalogCache.val)
             IN  Set(r, [loc[r] EXCEPT
                     !.events = @ \cup {"catalogRead", "catalogHit"},
                     !.cachedData = cachedData,
                     !.catalog = Reclassify(Deduplicate(cachedData))])
          /\ Goto(r, "c_quitHit")
    /\ UNCHANGED <<catalogCache, typeMapCache, lastCatalog>>
    /\ UNCHANGED clsVars

\* line 263: redis.quit() on the cache-hit path; it sits inside the try of
\* line 242, so a quit that throws is caught at line 266 and the call goes
\* on to the fresh fetch
CatalogQuitHit(r) ==
    /\ pc[r] = "c_quitHit"
    /\ \/ ReturnCatalog(r, [Quitted(loc[r], "cat") EXCEPT !.path = "hit"],
                         loc[r].catalog)
       \/ /\ Set(r, [Quitted(loc[r], "cat") EXCEPT
                         !.cachedData = << >>, !.catalog = << >>, !.page = 1])
          /\ Goto(r, "f_page")
    /\ UNCHANGED <<catalogCache, typeMapCache, lastCatalog>>
    /\ UNCHANGED clsVars

\* ---- fetchAllExchanges (lines 155-232) ----

\* lines 216-231 and 271-283: the loop is left, fetchAllExchanges returns
\* the deduplicated venues and getAllExchangesWithCache deduplicates and
\* sorts them; the call suspends at the setEx of line 287
FetchReturn(r, l, exchanges) ==
    \E fetched \in {Deduplicate(exchanges)} :
    \E deduplicatedExchanges \in {Deduplicate(fetched)} :
        /\ Set(r, [l EXCEPT !.events = @ \cup {"page"},
                            !.exchanges = exchanges,
                            !.fetched = fetched,
                            !.catalog = SortByName(deduplicatedExchanges),
                            !.path = "fresh"])
        /\ Goto(r, "c_set")

\* history: the request for page failed; for page 1 nothing was collected
FailedPage(page) ==
    IF page = 1 THEN {"pageFailed", "firstPageFailed"} ELSE {"pageFailed"}

\* history: page was requested and answered with got records (-1: an error)
Asked(l, got) == [l EXCEPT !.asked = Append(@, [page |-> l.page, got |-> got])]

\* Faulty variant of FetchPage: a failed page request discards what the earlier
\* pages gave.
FetchPageDropsPartial(r) ==
    /\ pc[r] = "f_page"
    /\ \E response \in Responses :
          /\ (loc[r].page - 1) * PerPage + Len(response.items) <= MaxRaw
          /\ IF response.kind = "error"
             THEN FetchReturn(r, Asked([loc[r] EXCEPT !.events = @ \cup FailedPage(loc[r].page)], -1),
                              << >>)
             ELSE LET pageExchanges == response.items
                      exchanges == loc[r].exchanges \o NormalizePage(pageExchanges)
                      l == Asked(loc[r], Len(pageExchanges))
                  IN  IF Len(pageExchanges) = 0
                      THEN FetchReturn(r, l, loc[r].exchanges)
                      ELSE IF Len(pageExchanges) < PerPage
                      THEN FetchReturn(r, l, exchanges)
                      ELSE /\ Set(r, [l EXCEPT
                                         !.events = @ \cup {"page"},
                                         !.exchanges = exchanges,
                                         !.page = @ + 1])
                           /\ UNCHANGED pc
    /\ UNCHANGED <<catalogCache, typeMapCache, lastCatalog>>
    /\ UNCHANGED clsVars

\* Faulty variant of FetchPage: only an empty page or an error ends the loop.
FetchPageIgnoresShort(r) ==
    /\ pc[r] = "f_page"
    /\ \E response \in Responses :
          /\ (loc[r].page - 1) * PerPage + Len(response.items) <= MaxRaw
          /\ IF response.kind = "error"
             THEN FetchReturn(r, Asked([loc[r] EXCEPT !.events = @ \cup FailedPage(loc[r].page)], -1),
                              loc[r].exchanges)
             ELSE LET pageExchanges == response.items
                      exchanges == loc[r].exchanges \o NormalizePage(pageExchanges)
                      l == Asked(loc[r], Len(pageExchanges))
                  IN  IF Len(pageExchanges) = 0
                      THEN FetchReturn(r, l, loc[r].exchanges)
                      ELSE /\ Set(r, [l EXCEPT
                                         !.events = @ \cup {"page"},
                                         !.exchanges = exchanges,
                                         !.page = @ + 1])
                           /\ UNCHANGED pc
    /\ UNCHANGED <<catalogCache, typeMapCache, lastCatalog>>
    /\ UNCHANGED clsVars

\* Faulty variant of FetchPage: after a full page the same page is requested
\* again.
FetchPageNoAdvance(r) ==
    /\ pc[r] = "f_page"
    /\ \E response \in Responses :
          /\ (loc[r].page - 1) * PerPage + Len(response.items) <= MaxRaw
          /\ IF response.kind = "error"
             THEN FetchReturn(r, Asked([loc[r] EXCEPT !.events = @ \cup FailedPage(loc[r].page)], -1),
                              loc[r].exchanges)
             ELSE LET pageExchanges == response.items
                      exchanges == loc[r].exchanges \o NormalizePage(pageExchanges)
                      l == Asked(loc[r], Len(pageExchanges))
                  IN  IF Len(pageExchanges) = 0
                      THEN FetchReturn(r, l, loc[r].exchanges)
                      ELSE IF Len(pageExchanges) < PerPage
                      THEN FetchReturn(r, l, exchanges)
                      ELSE /\ Set(r, [l EXCEPT
                                         !.events = @ \cup {"page"},
                                         !.exchanges = exchanges])
                           /\ UNCHANGED pc
    /\ UNCHANGED <<catalogCache, typeMapCache, lastCatalog>>
    /\ UNCHANGED clsVars

\* lines 169-212: one turn of the loop, the request for page loc[r].page
FetchPage(r) ==
    /\ pc[r] = "f_page"
    /\ \E response \in Responses :
          /\ (loc[r].page - 1) * PerPage + Len(response.items) <= MaxRaw
          /\ IF response.kind = "error"
             THEN \* line 208: caught, break
                  FetchReturn(r, Asked([loc[r] EXCEPT !.events = @ \cup FailedPage(loc[r].page)], -1),
                              loc[r].exchanges)
             ELSE LET pageExchanges == response.items   \* line 177
                      exchanges == loc[r].exchanges \o NormalizePage(pageExchanges)
                      l == Asked(loc[r], Len(pageExchanges))
                  IN  IF Len(pageExchanges) = 0
                      THEN FetchReturn(r, l, loc[r].exchanges)        \* line 179
                      ELSE IF Len(pageExchanges) < PerPage
                      THEN FetchReturn(r, l, exchanges)               \* line 203
                      ELSE /\ Set(r, [l EXCEPT                        \* lines 204-207
                                         !.events = @ \cup {"page"},
                                         !.exchanges = exchanges,
                                         !.page = @ + 1])
                           /\ UNCHANGED pc
    /\ UNCHANGED <<catalogCache, typeMapCache, lastCatalog>>
    /\ UNCHANGED clsVars

\* Faulty variant of CatalogSet: the key is written only while it is absent.
CatalogSetIfAbsent(r) ==
    /\ pc[r] = "c_set"
    /\ \/ /\ catalogCache' = IF catalogCache.has THEN catalogCache
                              ELSE Value(StringifyCatalog(loc[r].catalog))
          /\ Set(r, [loc[r] EXCEPT !.events = @ \cup {"catalogWrite"}, !.stored = TRUE,
                                   !.page = 0, !.exchanges = << >>, !.fetched = << >>,
                                   !.asked = << >>])
       \/ /\ UNCHANGED catalogCache
          /\ Set(r, [loc[r] EXCEPT !.events = @ \cup {"catalogWrite"},
                                   !.page = 0, !.exchanges = << >>, !.fetched = << >>,
                                   !.asked = << >>])
    /\ Goto(r, "c_quit")
    /\ UNCHANGED <<typeMapCache, lastCatalog>>
    /\ UNCHANGED clsVars

\* lines 285-290: redis.setEx(cacheKey, ...), a failure is caught
CatalogSet(r) ==
    /\ pc[r] = "c_set"
    /\ \/ /\ catalogCache' = Value(StringifyCatalog(loc[r].catalog))
          /\ Set(r, [loc[r] EXCEPT !.events = @ \cup {"catalogWrite"}, !.stored = TRUE,
                                   !.page = 0, !.exchanges = << >>, !.fetched = << >>,
                                   !.asked = << >>])
       \/ /\ UNCHANGED catalogCache
          /\ Set(r, [loc[r] EXCEPT !.events = @ \cup {"catalogWrite"},
                                   !.page = 0, !.exchanges = << >>, !.fetched = << >>,
                                   !.asked = << >>])
    /\ Goto(r, "c_quit")
    /\ UNCHANGED <<typeMapCache, lastCatalog>>
    /\ UNCHANGED clsVars

\* lines 291-295: redis.quit() in the finally, then return; a quit that
\* throws leaves the call by the exception
CatalogQuit(r) ==
    /\ pc[r] = "c_quit"
    /\ \/ ReturnCatalog(r, Quitted(loc[r], "cat"), loc[r].catalog)
       \/ RaiseFrom(r, Quitted(loc[r], "cat"))
    /\ UNCHANGED <<catalogCache, typeMapCache, lastCatalog>>
    /\ UNCHANGED clsVars

\* ---- the environment ----

\* The consumer takes the result (or the exception) of its call.
Finish(r) ==
    /\ pc[r] \in {"done", "raised"}
    /\ lastCatalog' =
          IF loc[r].op = "cat" /\ pc[r] = "done"
          THEN [has |-> TRUE,
                how |-> IF loc[r].path = "hit" THEN "hit"
                        ELSE IF loc[r].stored THEN "stored" ELSE "unstored",
                list |-> loc[r].catalog]
          ELSE NoCatalog
    /\ Set(r, IdleLoc)
    /\ Goto(r, "idle")
    /\ UNCHANGED <<catalogCache, typeMapCache>>
    /\ UNCHANGED clsVars

\* The 24-hour expiry (CACHE_TTL, lines 240 and 307) of a key runs out.  A
\* call lasts seconds: the expiry is taken between calls.
Quiet == \A r \in Req : pc[r] = "idle"

ExpireCatalog ==
    /\ Quiet
    /\ catalogCache.has
    /\ catalogCache' = NoValue(<< >>)
    /\ lastCatalog' = NoCatalog
    /\ UNCHANGED <<typeMapCache, pc, loc>>
    /\ UNCHANGED clsVars

ExpireTypeMap ==
    /\ Quiet
    /\ typeMapCache.has
    /\ typeMapCache' = NoValue({})
    /\ UNCHANGED <<catalogCache, pc, loc, lastCatalog>>
    /\ UNCHANGED clsVars

Step(r) ==
    \/ CallTypeMap(r)
    \/ TypeMapConnect(r)
    \/ TypeMapGet(r)
    \/ TypeMapQuitFast(r)
    \/ TypeMapSet(r)
    \/ TypeMapQuit(r)
    \/ CallCatalog(r)
    \/ CatalogConnect(r)
    \/ CatalogGet(r)
    \/ CatalogQuitHit(r)
    \/ FetchPage(r)
    \/ CatalogSet(r)
    \/ CatalogQuit(r)
    \/ Finish(r)

(***************************************************************************)
(* A lone call of the classifier                                           *)
(***************************************************************************)
\* Longest input of the classifier, in fragments.
MaxParts == 2

Fragments ==
    { <<"B", "i", "n", "a", "n", "c", "e">>, <<"S", "w", "a", "p">>,
      <<"d", "e">>, <<"x">>, <<"f", "o", "o">> }

RECURSIVE Concats(_)
Concats(n) ==
    IF n = 0 THEN { << >> }
    ELSE LET p == Concats(n - 1) IN p \cup { s \o f : s \in p, f \in Fragments }

InputStrings == Concats(MaxParts)

ClassifierOff ==
    /\ cid = << >>
    /\ cname = << >>
    /\ cflag = "absent"
    /\ cret = "off"

\* No consumer is counting tickers.
ConsumerOff ==
    /\ tickers = << >>
    /\ tokenMap = NoValue(EmptyMap)
    /\ counted = NoValue(<< >>)

InitClassify ==
    /\ InitSystem
    /\ ConsumerOff
    /\ cid \in InputStrings
    /\ cname \in InputStrings
    /\ cflag \in Flags
    /\ cret = "called"

\* classifyExchange(cid, cname, cflag) returns
Classify ==
    /\ cret = "called"
    /\ cret' = FlagOf(classifyExchange(cid, cname, cflag))
    /\ UNCHANGED <<cid, cname, cflag>>
    /\ UNCHANGED <<tickers, tokenMap, counted>>
    /\ UNCHANGED sysVars

(***************************************************************************)
(* The consumer: the listing-analysis handler counts a token's tickers     *)
(* (route.ts lines 131-152, 461-468, 506-517)                              *)
(***************************************************************************)
\* Most tickers of one token in the model.
MaxTickers == 2

\* A ticker: with or without a market, the market with its identifier and
\* name ("" when the field is missing).
Ticker(hasMarket, identifier, name) ==
    [hasMarket |-> hasMarket, identifier |-> identifier, name |-> name]

TickerPool ==
    { Ticker(TRUE, "x", "Abc"),
      Ticker(TRUE, "X", "Foo Swap"),
      Ticker(TRUE, "binance", ""),
      Ticker(TRUE, "pancakeswap", "Abc"),
      Ticker(TRUE, "", "Foo Swap"),
      Ticker(FALSE, "", "") }

\* String.prototype.trim() for the one white-space character used here
RECURSIVE trim(_)
trim(s) ==
    IF s = << >> THEN s
    ELSE IF Head(s) = " " THEN trim(Tail(s))
    ELSE IF s[Len(s)] = " " THEN trim(SubSeq(s, 1, Len(s) - 1))
    ELSE s

\* route.ts lines 462-468: the distinct non-empty market identifiers, in
\* the order of their first ticker
RECURSIVE ExchangeIdentifiers(_)
ExchangeIdentifiers(ts) ==
    IF ts = << >> THEN << >>
    ELSE LET init == ExchangeIdentifiers(SubSeq(ts, 1, Len(ts) - 1))
             t == ts[Len(ts)]
         IN  IF t.hasMarket /\ t.identifier # ""
                /\ \A i \in DOMAIN init : init[i] # t.identifier
             THEN Append(init, t.identifier)
             ELSE init

\* route.ts lines 132-152.  TRUE: the ticker is counted as decentralized.
isDEX(ticker, exchangeMap) ==
    IF ~ticker.hasMarket THEN FALSE                                 \* lines 133-135
    ELSE LET exchangeName == trim(toLowerCase(Chars(ticker.name)))              \* 137
             exchangeIdentifier == trim(toLowerCase(Chars(ticker.identifier)))  \* 138
         IN  IF /\ exchangeIdentifier # << >>                     \* lines 141-146
                /\ \E k \in DOMAIN exchangeMap : Chars(k) = exchangeIdentifier
             THEN ~exchangeMap[CHOOSE k \in DOMAIN exchangeMap :
                                  Chars(k) = exchangeIdentifier]
             ELSE ~classifyExchange(exchangeIdentifier, exchangeName, "absent")  \* 150

\* The catalogs the map of the handler is built from here.
ConsumerCatalogs ==
    { SortByName(Deduplicate(NormalizePage(s))) : s \in SeqsUpTo(RawPool, 1) }

InitConsumer ==
    /\ InitSystem
    /\ ClassifierOff
    /\ tickers \in SeqsUpTo(TickerPool, MaxTickers)
    /\ tokenMap = NoValue(EmptyMap)
    /\ counted = NoValue(<< >>)

\* route.ts line 507: getExchangeTypeMap(exchangeIdentifiers) returns, here
\* on a cold cache
ConsumerGetMap ==
    /\ ~tokenMap.has
    /\ \E allExchanges \in ConsumerCatalogs :
          tokenMap' = Value(BuildMap(EmptyMap, allExchanges,
                                     ExchangeIdentifiers(tickers)))
    /\ UNCHANGED <<tickers, counted>>
    /\ UNCHANGED <<cid, cname, cflag, cret>>
    /\ UNCHANGED sysVars

\* route.ts lines 516-517: the two filters
ConsumerCount ==
    /\ tokenMap.has
    /\ ~counted.has
    /\ counted' =
          Value([dexTickers |-> { i \in DOMAIN tickers : isDEX(tickers[i], tokenMap.val) },
                 cexTickers |-> { i \in DOMAIN tickers : ~isDEX(tickers[i], tokenMap.val) }])
    /\ UNCHANGED <<tickers, tokenMap>>
    /\ UNCHANGED <<cid, cname, cflag, cret>>
    /\ UNCHANGED sysVars

NextConsumer == ConsumerGetMap \/ ConsumerCount

(***************************************************************************)
(* Specifications                                                          *)
(***************************************************************************)
\* One request at a time: calls do not overlap.
Init == InitSystem /\ ClassifierOff /\ ConsumerOff

Next ==
    \/ Step("r1")
    \/ ExpireCatalog
    \/ ExpireTypeMap

Spec == Init /\ [][Next]_vars

\* Two requests at once.  Each makes one call, with at most MaxRaceIds
\* identifiers, and the store is healthy while they race: no connect, get
\* or quit fails.  Writes and page requests fail as before.
MaxRaceIds == 1

Healthy(r) ==
    /\ Len(loc'[r].ids) <= MaxRaceIds
    /\ pc'[r] # "raised"
    /\ ~loc'[r].readFailed
    /\ "catalogGetThrew" \notin loc'[r].events
    /\ pc[r] = "m_quitFast" => pc'[r] = "done"
    /\ pc[r] = "c_quitHit" => pc'[r] # "f_page"

RaceStep(r) ==
    \/ CallTypeMap(r) /\ Healthy(r)
    \/ TypeMapConnect(r) /\ Healthy(r)
    \/ TypeMapGet(r) /\ Healthy(r)
    \/ TypeMapQuitFast(r) /\ Healthy(r)
    \/ TypeMapSet(r) /\ Healthy(r)
    \/ TypeMapQuit(r) /\ Healthy(r)
    \/ CallCatalog(r) /\ Healthy(r)
    \/ CatalogConnect(r) /\ Healthy(r)
    \/ CatalogGet(r) /\ Healthy(r)
    \/ CatalogQuitHit(r) /\ Healthy(r)
    \/ FetchPage(r) /\ Healthy(r)
    \/ CatalogSet(r) /\ Healthy(r)
    \/ CatalogQuit(r) /\ Healthy(r)

NextRace == \E r \in Req : RaceStep(r)

SpecRace == Init /\ [][NextRace]_vars

\* The catalog calls of one request, with the scheduling the collector
\* relies on: the remote endpoint answers every page request (with a page or
\* an error, the client's own request timeout included), and the runtime
\* then resumes the loop.
CollectorStep(r) ==
    \/ CallCatalog(r)
    \/ CatalogConnect(r)
    \/ CatalogGet(r)
    \/ CatalogQuitHit(r)
    \/ FetchPage(r)
    \/ CatalogSet(r)
    \/ CatalogQuit(r)
    \/ Finish(r)

NextCollector ==
    \/ CollectorStep("r1")
    \/ ExpireCatalog

SpecCollector == Init /\ [][NextCollector]_vars /\ WF_vars(FetchPage("r1"))

\* The handler's counting alone, over all ticker lists of at most MaxTickers.
SpecConsumer == InitConsumer /\ [][NextConsumer]_vars

\* The classifier alone, over all inputs of at most MaxParts fragments.
SpecClassify == InitClassify /\ [][Classify]_vars

(***************************************************************************)
(* Properties of the classifier (checked under SpecClassify)               *)
(***************************************************************************)
\* The lower-cased string s contains an allow-list entry / a keyword.
HasAllowListEntry(s) ==
    \E k \in DOMAIN knownCEX : includes(toLowerCase(s), knownCEX[k])

HasDexKeyword(s) ==
    \E k \in DOMAIN DEX_KEYWORDS : includes(toLowerCase(s), DEX_KEYWORDS[k])

\* The same for the inputs of the lone call, tabulated once.
AllowListInputs == [s \in InputStrings |-> HasAllowListEntry(s)]

DexKeywordInputs == [s \in InputStrings |-> HasDexKeyword(s)]

Returned == cret \in {"true", "false"}

\* C1: classifyExchange returns true whenever the lower-cased id or name
\* contains an allow-list entry, also when a decentralized keyword is
\* contained as well and whatever the source flag is.
C1_AllowListWins ==
    (Returned /\ (AllowListInputs[cid] \/ AllowListInputs[cname]))
        => cret = "true"

\* An input with an allow-list entry in mixed case, a keyword beside it and
\* the source flag false has been classified centralized.
C1_Witness ==
    /\ cid = <<"B", "i", "n", "a", "n", "c", "e", "S", "w", "a", "p">>
    /\ DexKeywordInputs[cid]
    /\ DexKeywordInputs[cname]
    /\ cflag = "false"
    /\ cret = "true"

\* C2: classifyExchange returns false whenever the id or name contains a
\* decentralized keyword and neither contains an allow-list entry, also
\* when the source flag is true.
C2_KeywordBeatsFlag ==
    (/\ Returned
     /\ DexKeywordInputs[cid] \/ DexKeywordInputs[cname]
     /\ ~AllowListInputs[cid]
     /\ ~AllowListInputs[cname])
        => cret = "false"

\* A name with a keyword in mixed case, no allow-list entry and the source
\* flag true has been classified decentralized.
C2_Witness ==
    /\ cid = <<"f", "o", "o">>
    /\ cname = <<"f", "o", "o", "S", "w", "a", "p">>
    /\ cflag = "true"
    /\ cret = "false"

\* C3: what classifyExchange returns is a boolean for every pair of
\* strings, the empty ones included, and for a pair that matches neither
\* list that boolean is the source flag when one is supplied and true
\* otherwise.
C3_TotalWithFallback ==
    cret # "called" =>
          /\ Returned
          /\ (/\ ~AllowListInputs[cid] /\ ~AllowListInputs[cname]
              /\ ~DexKeywordInputs[cid] /\ ~DexKeywordInputs[cname])
                => cret = (IF cflag = "absent" THEN "true" ELSE cflag)

\* Two empty strings without a flag have been classified centralized.
C3_Witness ==
    /\ cid = << >>
    /\ cname = << >>
    /\ cflag = "absent"
    /\ cret = "true"

(***************************************************************************)
(* Properties of the running system (checked under Spec)                   *)
(***************************************************************************)
AllowListSys == [s \in SysStrings |-> HasAllowListEntry(Chars(s))]

DexKeywordSys == [s \in SysStrings |-> HasDexKeyword(Chars(s))]

IdsOf(exchanges) == { exchanges[i].id : i \in DOMAIN exchanges }

KeysOf(payload) == { e[1] : e \in payload }

UniqueIds(exchanges) ==
    \A i, j \in DOMAIN exchanges : exchanges[i].id = exchanges[j].id => i = j

\* The first record of exchanges that carries id.
FirstWith(exchanges, id) ==
    exchanges[CHOOSE j \in DOMAIN exchanges :
                 /\ exchanges[j].id = id
                 /\ \A k \in 1..(j - 1) : exchanges[k].id # id]

\* Request r is a getExchangeTypeMap call that has returned by the slow
\* path / a getAllExchangesWithCache call that has returned.
ReturnedSlow(r) ==
    loc[r].op = "map" /\ pc[r] = "done" /\ "mapWrite" \in loc[r].events

\* C4: when the persisted map was read and has an entry for every requested
\* identifier, getExchangeTypeMap reads no catalog, requests no page,
\* writes no key and returns the loaded map.
C4_FastPathNoFurtherWork ==
    \A r \in Req :
        (/\ loc[r].op = "map"
         /\ loc[r].loaded.has
         /\ MissingExchanges(loc[r].loaded.val, loc[r].ids) = {})
            => /\ loc[r].events = {}
               /\ pc[r] = "done" => loc[r].exchangeMap = loc[r].loaded.val

\* C5: on the slow path, a requested identifier whose id or known display
\* name contains a decentralized keyword, and neither an allow-list entry,
\* is false in the returned map, whatever the cached map held for it.
C5_KeywordForcesFalse ==
    \A r \in Req :
        ReturnedSlow(r) =>
            \A i \in DOMAIN loc[r].ids :
                LET id == loc[r].ids[i]
                    names == {id} \cup { loc[r].catalog[j].name :
                                            j \in { k \in DOMAIN loc[r].catalog :
                                                      loc[r].catalog[k].id = id } }
                IN  (/\ \E n \in names : DexKeywordSys[n]
                     /\ \A n \in names : ~AllowListSys[n])
                        => /\ id \in DOMAIN loc[r].exchangeMap
                           /\ loc[r].exchangeMap[id] = FALSE

\* The cached map held true for "x", the catalog now names it "Foo Swap",
\* and the returned map holds false.
C5_Witness ==
    \E r \in Req :
        /\ ReturnedSlow(r)
        /\ loc[r].loaded.has
        /\ "x" \in DOMAIN loc[r].loaded.val
        /\ loc[r].loaded.val["x"] = TRUE
        /\ \E i \in DOMAIN loc[r].ids : loc[r].ids[i] = "x"
        /\ \E j \in DOMAIN loc[r].catalog :
              loc[r].catalog[j].id = "x" /\ loc[r].catalog[j].name = "Foo Swap"
        /\ loc[r].exchangeMap["x"] = FALSE

\* C6: with no persisted map, every requested identifier that is not in the
\* catalog gets the value classifyExchange(id, id) gives without a flag.
C6_ColdCacheDefaults ==
    \A r \in Req :
        (ReturnedSlow(r) /\ ~loc[r].loaded.has) =>
            \A i \in DOMAIN loc[r].ids :
                LET id == loc[r].ids[i]
                IN  id \notin IdsOf(loc[r].catalog)
                        => /\ id \in DOMAIN loc[r].exchangeMap
                           /\ loc[r].exchangeMap[id]
                                 = classify(id, id, "absent")

\* The scenario of the specification: a cold cache, a catalog that knows
\* none of the three identifiers, and the map true, false, true.
C6_Witness ==
    \E r \in Req :
        /\ ReturnedSlow(r)
        /\ ~loc[r].loaded.has
        /\ ~loc[r].readFailed
        /\ loc[r].ids = ColdExample
        /\ IdsOf(loc[r].catalog) \cap {"binance", "pancakeswap", "unknown-id-123"} = {}
        /\ loc[r].exchangeMap["binance"] = TRUE
        /\ loc[r].exchangeMap["pancakeswap"] = FALSE
        /\ loc[r].exchangeMap["unknown-id-123"] = TRUE

\* C7: the list fetchAllExchanges returns and the list
\* getAllExchangesWithCache returns (fresh or from the cache) hold every
\* identifier at most once, and the record kept for an identifier is the
\* first one of the input that carries it.
C7_Deduplicated ==
    \A r \in Req :
        /\ UniqueIds(loc[r].fetched)
        /\ UniqueIds(loc[r].catalog)
        /\ pc[r] = "c_set" =>
              /\ \A i \in DOMAIN loc[r].fetched :
                    loc[r].fetched[i] = FirstWith(loc[r].exchanges, loc[r].fetched[i].id)
              /\ \A i \in DOMAIN loc[r].catalog :
                    loc[r].catalog[i] = FirstWith(loc[r].exchanges, loc[r].catalog[i].id)
        /\ loc[r].path = "hit" =>
              \A i \in DOMAIN loc[r].catalog :
                  LET first == FirstWith(loc[r].cachedData, loc[r].catalog[i].id)
                  IN  loc[r].catalog[i].name = first.name

\* The remote pages held two records with the same identifier and
\* different names; the first one is in the returned list, the other is not.
C7_Witness ==
    \E r \in Req :
        /\ pc[r] = "c_set"
        /\ \E i, j \in DOMAIN loc[r].exchanges :
              /\ i < j
              /\ loc[r].exchanges[i].id = loc[r].exchanges[j].id
              /\ loc[r].exchanges[i].name # loc[r].exchanges[j].name
              /\ \E k \in DOMAIN loc[r].catalog : loc[r].catalog[k] = loc[r].exchanges[i]
              /\ \A k \in DOMAIN loc[r].catalog : loc[r].catalog[k] # loc[r].exchanges[j]
        /\ Len(loc[r].fetched) < Len(loc[r].exchanges)

\* The identifiers of a list, each with its classification.
View(exchanges) ==
    { <<exchanges[i].id, exchanges[i].centralized>> : i \in DOMAIN exchanges }

\* C8: of two getAllExchangesWithCache calls in immediate succession within
\* the TTL, the first served from the cache or having stored what it
\* fetched and the second served from the cache, the second returns the
\* identifiers of the first, each with the same classification.
C8_Idempotent ==
    \A r \in Req :
        (/\ loc[r].op = "cat"
         /\ pc[r] = "done"
         /\ loc[r].path = "hit"
         /\ lastCatalog.has
         /\ lastCatalog.how \in {"hit", "stored"})
            => View(loc[r].catalog) = View(lastCatalog.list)

\* The first call stored a fetched catalog with a venue that matches
\* neither list and is flagged decentralized; the second was served from it.
C8_Witness ==
    \E r \in Req :
        /\ loc[r].op = "cat"
        /\ pc[r] = "done"
        /\ loc[r].path = "hit"
        /\ lastCatalog.how = "stored"
        /\ \E i \in DOMAIN loc[r].catalog :
              /\ loc[r].catalog[i].name = "Abc"
              /\ loc[r].catalog[i].centralized = FALSE

\* The payloads that differ from cachedData in the stored flags only.
Variants(cachedData) ==
    { [i \in DOMAIN cachedData |->
          Exchange(cachedData[i].id, cachedData[i].name, f[i])] :
      f \in [DOMAIN cachedData -> BOOLEAN] }

MatchesAList(id, name) ==
    \/ AllowListSys[id] \/ AllowListSys[name]
    \/ DexKeywordSys[id] \/ DexKeywordSys[name]

Ended(r) == loc[r].op = "map" /\ pc[r] \in {"done", "raised"}

ReturnedMap(r) == loc[r].op = "map" /\ pc[r] = "done"
ReturnedCatalog(r) == loc[r].op = "cat" /\ pc[r] = "done"

\* What a call whose cache read failed returns is what a call that found
\* the key absent returns: the map built from the empty map, the catalog
\* of a fresh fetch.
C11_SameResult ==
    \A r \in Req :
        /\ (ReturnedMap(r) /\ loc[r].readFailed)
              => /\ "catalogRead" \in loc[r].events
                 /\ loc[r].exchangeMap = BuildMap(EmptyMap, loc[r].catalog, loc[r].ids)
        /\ (pc[r] = "done" /\ "catalogGetThrew" \in loc[r].events)
              => /\ loc[r].path = "fresh"
                 /\ "page" \in loc[r].events

\* The step in which a cache read fails leaves the call where the step of
\* an absent key leaves it (the catalog read, the first page request), never
\* at an exception.
C11_NoFailure ==
    \A r \in Req :
        /\ (pc[r] = "m_get" /\ loc'[r].readFailed)
              => /\ pc'[r] = "c_connect"
                 /\ loc'[r] = [loc[r] EXCEPT !.readFailed = TRUE]
        /\ (pc[r] = "c_get" /\ "catalogGetThrew" \in loc'[r].events
                            /\ "catalogGetThrew" \notin loc[r].events)
              => /\ pc'[r] = "f_page"
                 /\ loc'[r].page = 1
                 /\ loc'[r].exchanges = << >>
                 /\ loc'[r].exchangeMap = loc[r].exchangeMap

\* C11: a failed cache read, in getExchangeTypeMap or in
\* getAllExchangesWithCache, is treated as a cache miss: the failing step
\* does not end the call, and a call that returns after it returns what it
\* returns when the key is absent.
C11_FailedReadIsMiss == []C11_SameResult /\ [][C11_NoFailure]_vars

\* A map call returned although its read of a persisted, non-empty map
\* failed, and inside it the catalog read failed too, with a catalog stored.
C11_Witness ==
    \E r \in Req :
        /\ ReturnedMap(r)
        /\ loc[r].readFailed
        /\ loc[r].preKeys # {}
        /\ "catalogGetThrew" \in loc[r].events
        /\ catalogCache.has
        /\ loc[r].catalog # << >>

\* The map a slow-path call computes from what its read gave it.
ComputedMap(r) ==
    BuildMap(IF loc[r].loaded.has THEN loc[r].loaded.val ELSE EmptyMap,
             loc[r].catalog, loc[r].ids)

\* The step of a setEx, failed or not, goes on to the quit with the result
\* untouched; a failed one leaves the key as it was.
C12_WriteStep ==
    \A r \in Req :
        /\ pc[r] = "m_set" /\ pc'[r] # "m_set"
              => /\ pc'[r] = "m_quit"
                 /\ loc'[r].exchangeMap = loc[r].exchangeMap
                 /\ IF "mapStored" \in loc'[r].events
                    THEN typeMapCache' = Value(StringifyMap(loc[r].exchangeMap))
                    ELSE typeMapCache' = typeMapCache
        /\ pc[r] = "c_set" /\ pc'[r] # "c_set"
              => /\ pc'[r] = "c_quit"
                 /\ loc'[r].catalog = loc[r].catalog
                 /\ IF loc'[r].stored
                    THEN catalogCache' = Value(StringifyCatalog(loc[r].catalog))
                    ELSE catalogCache' = catalogCache
        /\ pc[r] \in {"m_quit", "c_quit"} /\ pc'[r] \in {"done", "m_set"}
              => loc'[r].catalog = loc[r].catalog

\* A returned map is the computed one whether or not it was stored; after
\* a catalog call whose write to the absent key failed, the next call is
\* not served from the cache but fetches again.
C12_SameResult ==
    \A r \in Req :
        /\ (ReturnedMap(r) /\ "mapWrite" \in loc[r].events)
              => loc[r].exchangeMap = ComputedMap(r)
        /\ (loc[r].op = "cat" /\ lastCatalog.how = "unstored" /\ ~catalogCache.has)
              => /\ pc[r] # "c_quitHit"
                 /\ loc[r].path # "hit"
                 /\ pc[r] = "done" => "page" \in loc[r].events

C13_NeverRaises == \A r \in Req : pc[r] # "raised"

\* The step in which the request for page k fails ends the pagination
\* without an exception, and fetchAllExchanges returns the deduplicated
\* venues of pages 1..k-1.
C14_FailingStep ==
    \A r \in Req :
        (pc[r] = "f_page" /\ "pageFailed" \in loc'[r].events)
            => /\ pc'[r] = "c_set"
               /\ loc'[r].page = loc[r].page
               /\ loc'[r].exchanges = loc[r].exchanges
               /\ loc'[r].fetched = Deduplicate(loc[r].exchanges)
               /\ loc[r].page = 1 => loc'[r].fetched = << >>

\* After a failed page request no further page is requested.
C14_Stopped ==
    \A r \in Req : "pageFailed" \in loc[r].events => pc[r] # "f_page"

\* C14: when the request for page k fails, fetchAllExchanges stops
\* paginating, does not raise, and returns exactly the deduplicated venues
\* collected from pages 1..k-1 (none when k = 1).
C14_PartialResults == []C14_Stopped /\ [][C14_FailingStep]_vars

\* The request for page 2 failed after a full first page with a repeated
\* identifier: fetchAllExchanges has returned the one venue of page 1.
C14_Witness ==
    \E r \in Req :
        /\ pc[r] = "c_set"
        /\ "pageFailed" \in loc[r].events
        /\ loc[r].page = 2
        /\ Len(loc[r].exchanges) = PerPage
        /\ Len(loc[r].fetched) = 1

(***************************************************************************)
(* Order of the catalog                                                    *)
(***************************************************************************)
\* exchanges is in ascending order of name under the comparator of line 283.
SortedByName(exchanges) ==
    \A i \in 1..(Len(exchanges) - 1) :
        localeCompare(exchanges[i].name, exchanges[i + 1].name) <= 0

\* C15: every catalog getAllExchangesWithCache returns, to a consumer or to
\* getExchangeTypeMap, from a fresh fetch or from the cache, is sorted by
\* name ascending (and holds each identifier once).
C15_Sorted ==
    \A r \in Req :
        pc[r] \in {"done", "m_set", "m_quit"}
            => /\ SortedByName(loc[r].catalog)
               /\ UniqueIds(loc[r].catalog)

\* A catalog of two venues, fetched in descending order of name by an
\* earlier call and stored, has been returned from the cache.
C15_Witness ==
    \E r \in Req :
        /\ ReturnedCatalog(r)
        /\ loc[r].path = "hit"
        /\ Len(loc[r].catalog) = 2
        /\ loc[r].catalog[1].name = "binance"
        /\ loc[r].catalog[2].name = "Foo Swap"
        /\ loc[r].cachedData = loc[r].catalog

(***************************************************************************)
(* Two requests at once (checked under SpecRace)                           *)
(***************************************************************************)
\* A successful write puts the writer's own value under the key, whatever
\* another request has put there meanwhile.
C16_WriteReplaces ==
    \A r \in Req :
        /\ (pc[r] = "c_set" /\ loc'[r].stored)
              => catalogCache' = Value(StringifyCatalog(loc[r].catalog))
        /\ (pc[r] = "m_set" /\ "mapStored" \in loc'[r].events)
              => typeMapCache' = Value(StringifyMap(loc[r].exchangeMap))

\* When both requests have returned, a key that was written holds the
\* value of one of its writers, whole.
C16_OneWritersValue ==
    (\A r \in Req : pc[r] = "done")
        => /\ (\E r \in Req : loc[r].stored)
                 => \E r \in Req : /\ loc[r].stored
                                   /\ catalogCache = Value(StringifyCatalog(loc[r].catalog))
           /\ (\E r \in Req : "mapStored" \in loc[r].events)
                 => \E r \in Req : /\ "mapStored" \in loc[r].events
                                   /\ typeMapCache = Value(StringifyMap(loc[r].exchangeMap))

\* C16: two requests that populate the same key at the same time each
\* fetch and compute on their own, and the key ends with exactly the value
\* of the request whose write came last: a write replaces, it never merges.
C16_LastWriteWins == []C16_OneWritersValue /\ [][C16_WriteReplaces]_vars

\* Both requests found both keys absent, both fetched a catalog and built
\* a map, both stored both; the catalogs differ and the maps differ, and
\* each key holds what one request wrote and not what the other wrote.
C16_Witness ==
    /\ \A r \in Req :
          /\ ReturnedMap(r)
          /\ ~loc[r].loaded.has
          /\ loc[r].path = "fresh"
          /\ loc[r].stored
          /\ "mapStored" \in loc[r].events
    /\ loc["r1"].catalog # loc["r2"].catalog
    /\ catalogCache = Value(StringifyCatalog(loc["r1"].catalog))
    /\ typeMapCache = Value(StringifyMap(loc["r2"].exchangeMap))
    /\ KeysOf(typeMapCache.val) # KeysOf(StringifyMap(loc["r1"].exchangeMap))

\* C17: a call that finds no catalog in the cache and whose first page
\* request fails ends by an error: it never returns a result.
C17_FirstPageFailureRaises ==
    \A r \in Req : "firstPageFailed" \in loc[r].events => pc[r] # "done"

(***************************************************************************)
(* Pagination                                                              *)
(***************************************************************************)
\* The loop is still turning / has been left and the result is not yet
\* stored.
Paging(r) == pc[r] = "f_page"
PagingOver(r) == pc[r] = "c_set"

\* C18: fetchAllExchanges requests the pages 1, 2, 3, ... one after the
\* other, each once; it requests the next page only after a full page
\* (perPage records), and makes no request after the first page that is
\* empty, short or failed.
C18_Pagination ==
    \A r \in Req :
        LET asked == loc[r].asked
        IN  /\ \A i \in DOMAIN asked : asked[i].page = i
            /\ Paging(r)
                  => /\ loc[r].page = Len(asked) + 1
                     /\ \A i \in DOMAIN asked : asked[i].got = PerPage
            /\ PagingOver(r)
                  => /\ loc[r].page = Len(asked)
                     /\ Len(asked) >= 1
                     /\ asked[Len(asked)].got < PerPage
                     /\ \A i \in 1..(Len(asked) - 1) : asked[i].got = PerPage
            /\ ~(Paging(r) \/ PagingOver(r)) => asked = << >>

\* Page 2 was requested after a full page 1 and came back short; the loop
\* has been left.
C18_Witness ==
    \E r \in Req :
        /\ PagingOver(r)
        /\ Len(loc[r].asked) = 2
        /\ loc[r].asked[1].got = PerPage
        /\ loc[r].asked[2].got \in 1..(PerPage - 1)

(***************************************************************************)
(* What is stored under the catalog key                                    *)
(***************************************************************************)
\* C19: a getAllExchangesWithCache call that hits the cache makes no page
\* request and no cache write.
C19_HitIsReadOnly ==
    \A r \in Req :
        "catalogHit" \in loc[r].events
            => /\ "page" \notin loc[r].events
               /\ "catalogWrite" \notin loc[r].events

\* C20: what getAllExchangesWithCache writes under the catalog key is the
\* full list: a catalog cut short by a failed page request is never stored.
C20_StoredIsFull ==
    \A r \in Req : loc[r].stored => "pageFailed" \notin loc[r].events

(***************************************************************************)
(* The steps of getExchangeTypeMap                                         *)
(***************************************************************************)
\* The map a slow-path call starts from, and the map after its step 2
\* (lines 335-342), before the requested identifiers are looked at.
LoadedMap(r) == IF loc[r].loaded.has THEN loc[r].loaded.val ELSE EmptyMap
AfterStep2(r) == MergeCatalog(LoadedMap(r), loc[r].catalog)

Requested(r) == { loc[r].ids[i] : i \in DOMAIN loc[r].ids }

\* The catalog venues that carry both an identifier and a name.
NamedVenues(r) ==
    { j \in DOMAIN loc[r].catalog :
        loc[r].catalog[j].id # "" /\ loc[r].catalog[j].name # "" }

\* C21: step 2 sets the entry of every catalog venue that has an id and a
\* name to the venue's catalog value, whatever the cached map held; it adds
\* and changes no other entry; and the returned map keeps these values for
\* the identifiers that were not requested.
C21_CatalogOverwrites ==
    \A r \in Req :
        ReturnedSlow(r) =>
            LET m == AfterStep2(r)
                named == { loc[r].catalog[j].id : j \in NamedVenues(r) }
            IN  /\ \A j \in NamedVenues(r) :
                      /\ loc[r].catalog[j].id \in DOMAIN m
                      /\ m[loc[r].catalog[j].id] = loc[r].catalog[j].centralized
                /\ DOMAIN m = DOMAIN LoadedMap(r) \cup named
                /\ \A k \in DOMAIN m \ named : m[k] = LoadedMap(r)[k]
                /\ \A k \in DOMAIN m \ Requested(r) :
                      /\ k \in DOMAIN loc[r].exchangeMap
                      /\ loc[r].exchangeMap[k] = m[k]

\* The cached map held true for "x"; the catalog holds "x" as decentralized
\* and "x" was not requested: the returned map holds false for it.
C21_Witness ==
    \E r \in Req :
        /\ ReturnedSlow(r)
        /\ "x" \in DOMAIN LoadedMap(r)
        /\ LoadedMap(r)["x"] = TRUE
        /\ "x" \notin Requested(r)
        /\ \E j \in NamedVenues(r) :
              loc[r].catalog[j].id = "x" /\ loc[r].catalog[j].centralized = FALSE
        /\ loc[r].exchangeMap["x"] = FALSE

\* The name step 3 classifies a requested identifier by (line 347).
NameOf(r, id) == NameFor(ExchangeNamesMap(loc[r].catalog), id)

\* C22: a requested identifier whose entry is false after step 2 is false
\* in the returned map: step 3 turns no false entry into true.
C22_FalseStaysFalse ==
    \A r \in Req :
        ReturnedSlow(r) =>
            \A id \in Requested(r) :
                (id \in DOMAIN AfterStep2(r) /\ AfterStep2(r)[id] = FALSE)
                    => /\ id \in DOMAIN loc[r].exchangeMap
                       /\ loc[r].exchangeMap[id] = FALSE

\* "x" was requested, it matches neither list under its name "Abc", its
\* entry after step 2 is false, and the returned map holds false.
C22_Witness ==
    \E r \in Req :
        /\ ReturnedSlow(r)
        /\ "x" \in Requested(r)
        /\ NameOf(r, "x") = "Abc"
        /\ "x" \in DOMAIN AfterStep2(r)
        /\ AfterStep2(r)["x"] = FALSE
        /\ loc[r].exchangeMap["x"] = FALSE

\* C23: for a requested identifier that matches neither the allow-list nor
\* a keyword, step 3 leaves an entry that exists after step 2 as it is,
\* and creates the entry with true when there is none.
C23_DefaultOnlyWhenAbsent ==
    \A r \in Req :
        ReturnedSlow(r) =>
            \A id \in Requested(r) :
                (/\ ~KnownCEXTable[id, NameOf(r, id)]
                 /\ ~DEXKeywordTable[id, NameOf(r, id)])
                    => /\ id \in DOMAIN loc[r].exchangeMap
                       /\ loc[r].exchangeMap[id] =
                              IF id \in DOMAIN AfterStep2(r)
                              THEN AfterStep2(r)[id] ELSE TRUE

\* "x" matches neither list and is in no catalog now; its false entry came
\* from the cached map alone and is returned as it was, while "binance",
\* requested with it, had no entry.
C23_Witness ==
    \E r \in Req :
        /\ ReturnedSlow(r)
        /\ Requested(r) = {"x", "binance"}
        /\ NamedVenues(r) = {}
        /\ DOMAIN LoadedMap(r) = {"x"}
        /\ LoadedMap(r)["x"] = FALSE
        /\ loc[r].exchangeMap["x"] = FALSE

\* A call of getExchangeTypeMap that went past the fast path: it called
\* getAllExchangesWithCache, which read the catalog key.
SlowPath(r) == loc[r].op = "map" /\ "catalogRead" \in loc[r].events

\* Every setEx of the map key is the first one of its call, comes after
\* the merge, writes the whole merged map or nothing, and leads to the
\* quit; the key gets a value in no other step.
C24_WriteStep ==
    /\ \A r \in Req :
          (pc[r] = "m_set" /\ loc'[r] # loc[r])
             => /\ "mapWrite" \notin loc[r].events
                /\ "mapWrite" \in loc'[r].events
                /\ loc[r].exchangeMap = ComputedMap(r)
                /\ pc'[r] = "m_quit"
                /\ typeMapCache' \in {typeMapCache,
                                      Value(StringifyMap(loc[r].exchangeMap))}
    /\ (typeMapCache'.has /\ typeMapCache' # typeMapCache)
          => \E r \in Req : pc[r] = "m_set" /\ "mapStored" \in loc'[r].events

\* A slow-path call that is at its quit or has returned has made its write
\* attempt; if the write succeeded, the key holds the map the call returns.
C24_Persisted ==
    \A r \in Req :
        (SlowPath(r) /\ pc[r] \in {"m_quit", "done"})
           => /\ "mapWrite" \in loc[r].events
              /\ "mapStored" \in loc[r].events
                    => /\ typeMapCache = Value(StringifyMap(loc[r].exchangeMap))
                       /\ ParseMap(typeMapCache.val) = loc[r].exchangeMap

\* C24: every slow-path call of getExchangeTypeMap attempts exactly one
\* write of the complete merged map, after the merge and before returning,
\* whether or not an identifier was added; after a successful write the
\* persisted map equals the returned map.
C24_OneWriteOfWholeMap == []C24_Persisted /\ [][C24_WriteStep]_vars

\* A slow-path call that added nothing to the map it loaded wrote it back
\* all the same and returned it.
C24_Witness ==
    \E r \in Req :
        /\ ReturnedMap(r)
        /\ SlowPath(r)
        /\ "mapStored" \in loc[r].events
        /\ loc[r].loaded.has
        /\ loc[r].exchangeMap = loc[r].loaded.val
        /\ Cardinality(DOMAIN loc[r].exchangeMap) >= 2
        /\ Requested(r) # DOMAIN loc[r].exchangeMap
        /\ typeMapCache = Value(StringifyMap(loc[r].exchangeMap))

\* What the call computes for its identifiers from the catalog it read and
\* the two lists alone, the cached map left out.
Recomputed(r) == BuildMap(EmptyMap, loc[r].catalog, loc[r].ids)

\* C25 as stated: every boolean getExchangeTypeMap returns for a requested
\* identifier was recomputed by the classifier during the call and never
\* comes from the cached map alone.
C25_AlwaysRecomputed ==
    \A r \in Req :
        ReturnedMap(r)
           => \A id \in Requested(r) : loc[r].exchangeMap[id] = Recomputed(r)[id]

\* C25, amended: on the fast path the loaded map is returned as it is; on
\* the slow path a requested identifier that matches the allow-list is
\* true, one that matches only a keyword is false, and one that matches
\* neither keeps the entry of the catalog or, failing that, of the cached
\* map, and is true when it has neither.
C25_DerivedOrKept ==
    \A r \in Req :
        ReturnedMap(r)
           => IF ~SlowPath(r)
              THEN loc[r].loaded.has /\ loc[r].exchangeMap = loc[r].loaded.val
              ELSE \A id \in Requested(r) :
                      loc[r].exchangeMap[id] =
                         IF AllowListSys[id] \/ AllowListSys[NameOf(r, id)] THEN TRUE
                         ELSE IF DexKeywordSys[id] \/ DexKeywordSys[NameOf(r, id)] THEN FALSE
                         ELSE IF \E j \in NamedVenues(r) : loc[r].catalog[j].id = id
                              THEN FirstWith(loc[r].catalog, id).centralized
                         ELSE IF id \in DOMAIN LoadedMap(r) THEN LoadedMap(r)[id]
                         ELSE TRUE

\* A slow-path call returned, for an identifier on neither list and not in
\* the catalog, the false entry of the cached map, next to an identifier it
\* classified by keyword.
C25_Witness ==
    \E r \in Req :
        /\ ReturnedMap(r)
        /\ SlowPath(r)
        /\ Requested(r) = {"x", "pancakeswap"}
        /\ loc[r].catalog = << >>
        /\ DOMAIN LoadedMap(r) = {"x"}
        /\ ~LoadedMap(r)["x"]
        /\ ~loc[r].exchangeMap["x"]
        /\ Recomputed(r)["x"]
        /\ ~loc[r].exchangeMap["pancakeswap"]

\* The identifiers of the catalog venues that carry a name.
NamedIds(r) == { loc[r].catalog[j].id : j \in NamedVenues(r) }

\* C26: on every path that returns, the map getExchangeTypeMap returns has
\* an entry for every requested identifier; on the slow path its keys
\* include every key of the loaded cached map, every catalog identifier
\* with a display name and every requested identifier.
C26_Complete ==
    \A r \in Req :
        ReturnedMap(r)
           => /\ Requested(r) \subseteq DOMAIN loc[r].exchangeMap
              /\ SlowPath(r)
                    => (DOMAIN LoadedMap(r) \cup NamedIds(r) \cup Requested(r))
                          \subseteq DOMAIN loc[r].exchangeMap

\* A call whose cache read and cache write both failed returned a map with
\* both requested identifiers and a catalog venue nobody asked about.
C26_Witness ==
    \E r \in Req :
        /\ ReturnedMap(r)
        /\ SlowPath(r)
        /\ loc[r].readFailed
        /\ "mapWrite" \in loc[r].events
        /\ "mapStored" \notin loc[r].events
        /\ Cardinality(Requested(r)) = 2
        /\ NamedIds(r) \ Requested(r) # {}
        /\ typeMapCache.has
        /\ KeysOf(typeMapCache.val) \ DOMAIN loc[r].exchangeMap # {}

\* C27: no update of the identifier map is lost: when two requests that
\* overlap both take the slow path and both store their map, the persisted
\* map has an entry for every identifier either of them asked about.
C27_NoLostUpdate ==
    (\A r \in Req : ReturnedMap(r) /\ SlowPath(r) /\ "mapStored" \in loc[r].events)
       => /\ typeMapCache.has
          /\ \A r \in Req : Requested(r) \subseteq KeysOf(typeMapCache.val)

\* One turn of the loop either leaves the loop, on an answer that is an
\* error, empty or shorter than perPage, or goes on with the page counter
\* one higher, on a full page.
C28_LoopStep ==
    \A r \in Req :
        (Paging(r) /\ loc'[r] # loc[r])
           => LET got == loc'[r].asked[Len(loc'[r].asked)].got
              IN  /\ Len(loc'[r].asked) = Len(loc[r].asked) + 1
                  /\ IF got = PerPage
                     THEN Paging(r)' /\ loc'[r].page = loc[r].page + 1
                     ELSE PagingOver(r)' /\ loc'[r].page = loc[r].page

\* Once in its loop, the collector leaves it.
C28_LeavesLoop == \A r \in Req : Paging(r) ~> PagingOver(r)

\* C28: fetchAllExchanges returns, given that the endpoint answers some page
\* request with an empty page, a short page, a non-array or an error; every
\* turn of the loop stops it or raises the page counter by exactly one.
C28_Terminates == C28_LeavesLoop /\ [][C28_LoopStep]_vars

\* The loop went round once on a full page 1, asked for page 2, got an
\* empty page and was left.
C28_Witness ==
    \E r \in Req :
        /\ PagingOver(r)
        /\ loc[r].page = 2
        /\ Len(loc[r].asked) = 2
        /\ loc[r].asked[1].got = PerPage
        /\ loc[r].asked[2].got = 0
        /\ Len(loc[r].exchanges) >= 1

\* C29: every cache client a call opened has been quit exactly once by the
\* time the call returns or raises, whatever path it took.
C29_QuitExactlyOnce ==
    \A r \in Req :
        pc[r] \in {"done", "raised"}
           => \A c \in Clients :
                 loc[r].clients[c].quits = IF loc[r].clients[c].opened THEN 1 ELSE 0

\* C30: for every ticker whose market identifier, as it appears in the
\* ticker, has an entry in the map getExchangeTypeMap returned, isDEX is
\* the negation of that entry; every ticker is counted once, as DEX or as
\* CEX.
C30_CountsFollowMap ==
    counted.has
       => /\ \A i \in DOMAIN tickers :
                (tickers[i].hasMarket /\ tickers[i].identifier \in DOMAIN tokenMap.val)
                   => (i \in counted.val.dexTickers
                          <=> ~tokenMap.val[tickers[i].identifier])
          /\ Cardinality(counted.val.dexTickers) + Cardinality(counted.val.cexTickers)
                = Len(tickers)

=============================================================================
